---- MODULE Spec2Model ----
(***************************************************************************)
(* hash_sha256 (src/src/hashing.rs): open a file, stream it through a      *)
(* SHA-256 accumulator with io::copy, finalize, and encode the 32-byte     *)
(* digest with base16ct::lower::encode_string.                             *)
(*                                                                         *)
(* Each call is a process with its own locals (file, reader, hasher, hash). *)
(* The file system, the standard library and the sha2 / base16ct crates are *)
(* modelled by what they do: File::open and Read::read by their documented  *)
(* outcomes, io::copy by its documented loop ("All instances of             *)
(* ErrorKind::Interrupted are handled by this function and the underlying   *)
(* operation is retried"; any other error is returned immediately), Sha256  *)
(* by FIPS 180-4 on real 32-bit words, the encoders by their alphabets.     *)
(***************************************************************************)
EXTENDS Integers, Sequences, FiniteSets, TLC

(* Bounds of the model. *)
MaxReadLen == 3       \* most bytes one read returns (the reader's buffer capacity)
MaxInterrupts == 1    \* most retryable (Interrupted) read errors per call
LongLen == 66         \* length of the long file: more than one 64-byte block

Calls == {1, 2}

(***************************************************************************)
(* SHA-256 (sha2::Sha256).  A 32-bit word is a pair <<hi, lo>> of 16-bit    *)
(* halves, so that every intermediate value stays below 2^31.               *)
(***************************************************************************)
Bit(x, k) == (x \div (2 ^ k)) % 2

(* The bitwise functions of FIPS 180-4 on single bits, tabulated on nibbles
   (index x*256 + y*16 + z + 1) and applied nibble by nibble. *)
XorBit(x, y, z) == (x + y + z) % 2
ChBit(x, y, z) == x * y + (1 - x) * z
MajBit(x, y, z) == (x + y + z) \div 2

Xor4 ==
    <<>> \o [j \in 1..4096 |->
        LET x == (j - 1) \div 256
            y == ((j - 1) \div 16) % 16
            z == (j - 1) % 16
        IN  XorBit(Bit(x, 0), Bit(y, 0), Bit(z, 0))
            + XorBit(Bit(x, 1), Bit(y, 1), Bit(z, 1)) * 2
            + XorBit(Bit(x, 2), Bit(y, 2), Bit(z, 2)) * 4
            + XorBit(Bit(x, 3), Bit(y, 3), Bit(z, 3)) * 8]

Ch4 ==
    <<>> \o [j \in 1..4096 |->
        LET x == (j - 1) \div 256
            y == ((j - 1) \div 16) % 16
            z == (j - 1) % 16
        IN  ChBit(Bit(x, 0), Bit(y, 0), Bit(z, 0))
            + ChBit(Bit(x, 1), Bit(y, 1), Bit(z, 1)) * 2
            + ChBit(Bit(x, 2), Bit(y, 2), Bit(z, 2)) * 4
            + ChBit(Bit(x, 3), Bit(y, 3), Bit(z, 3)) * 8]

Maj4 ==
    <<>> \o [j \in 1..4096 |->
        LET x == (j - 1) \div 256
            y == ((j - 1) \div 16) % 16
            z == (j - 1) % 16
        IN  MajBit(Bit(x, 0), Bit(y, 0), Bit(z, 0))
            + MajBit(Bit(x, 1), Bit(y, 1), Bit(z, 1)) * 2
            + MajBit(Bit(x, 2), Bit(y, 2), Bit(z, 2)) * 4
            + MajBit(Bit(x, 3), Bit(y, 3), Bit(z, 3)) * 8]

Tri16(T, a, b, c) ==
    T[(a \div 4096) * 256 + (b \div 4096) * 16 + (c \div 4096) + 1] * 4096
    + T[((a \div 256) % 16) * 256 + ((b \div 256) % 16) * 16 + ((c \div 256) % 16) + 1] * 256
    + T[((a \div 16) % 16) * 256 + ((b \div 16) % 16) * 16 + ((c \div 16) % 16) + 1] * 16
    + T[(a % 16) * 256 + (b % 16) * 16 + (c % 16) + 1]

Tri(T, a, b, c) == <<Tri16(T, a[1], b[1], c[1]), Tri16(T, a[2], b[2], c[2])>>

ADD(a, b) ==
    LET lo == a[2] + b[2]
    IN  <<(a[1] + b[1] + (lo \div 65536)) % 65536, lo % 65536>>

RotLow(w, n) ==
    <<(w[1] \div (2 ^ n)) + (w[2] % (2 ^ n)) * (2 ^ (16 - n)),
      (w[2] \div (2 ^ n)) + (w[1] % (2 ^ n)) * (2 ^ (16 - n))>>
ROTR(w, n) == IF n < 16 THEN RotLow(w, n) ELSE RotLow(<<w[2], w[1]>>, n - 16)
SHR(w, n) ==
    <<w[1] \div (2 ^ n), (w[2] \div (2 ^ n)) + (w[1] % (2 ^ n)) * (2 ^ (16 - n))>>

K256 == <<
    <<\h428a, \h2f98>>, <<\h7137, \h4491>>, <<\hb5c0, \hfbcf>>, <<\he9b5, \hdba5>>,
    <<\h3956, \hc25b>>, <<\h59f1, \h11f1>>, <<\h923f, \h82a4>>, <<\hab1c, \h5ed5>>,
    <<\hd807, \haa98>>, <<\h1283, \h5b01>>, <<\h2431, \h85be>>, <<\h550c, \h7dc3>>,
    <<\h72be, \h5d74>>, <<\h80de, \hb1fe>>, <<\h9bdc, \h06a7>>, <<\hc19b, \hf174>>,
    <<\he49b, \h69c1>>, <<\hefbe, \h4786>>, <<\h0fc1, \h9dc6>>, <<\h240c, \ha1cc>>,
    <<\h2de9, \h2c6f>>, <<\h4a74, \h84aa>>, <<\h5cb0, \ha9dc>>, <<\h76f9, \h88da>>,
    <<\h983e, \h5152>>, <<\ha831, \hc66d>>, <<\hb003, \h27c8>>, <<\hbf59, \h7fc7>>,
    <<\hc6e0, \h0bf3>>, <<\hd5a7, \h9147>>, <<\h06ca, \h6351>>, <<\h1429, \h2967>>,
    <<\h27b7, \h0a85>>, <<\h2e1b, \h2138>>, <<\h4d2c, \h6dfc>>, <<\h5338, \h0d13>>,
    <<\h650a, \h7354>>, <<\h766a, \h0abb>>, <<\h81c2, \hc92e>>, <<\h9272, \h2c85>>,
    <<\ha2bf, \he8a1>>, <<\ha81a, \h664b>>, <<\hc24b, \h8b70>>, <<\hc76c, \h51a3>>,
    <<\hd192, \he819>>, <<\hd699, \h0624>>, <<\hf40e, \h3585>>, <<\h106a, \ha070>>,
    <<\h19a4, \hc116>>, <<\h1e37, \h6c08>>, <<\h2748, \h774c>>, <<\h34b0, \hbcb5>>,
    <<\h391c, \h0cb3>>, <<\h4ed8, \haa4a>>, <<\h5b9c, \hca4f>>, <<\h682e, \h6ff3>>,
    <<\h748f, \h82ee>>, <<\h78a5, \h636f>>, <<\h84c8, \h7814>>, <<\h8cc7, \h0208>>,
    <<\h90be, \hfffa>>, <<\ha450, \h6ceb>>, <<\hbef9, \ha3f7>>, <<\hc671, \h78f2>>
>>

H256_256 == <<
    <<\h6a09, \he667>>, <<\hbb67, \hae85>>, <<\h3c6e, \hf372>>, <<\ha54f, \hf53a>>,
    <<\h510e, \h527f>>, <<\h9b05, \h688c>>, <<\h1f83, \hd9ab>>, <<\h5be0, \hcd19>>
>>

Ch(x, y, z) == Tri(Ch4, x, y, z)
Maj(x, y, z) == Tri(Maj4, x, y, z)
BigSigma0(x) == Tri(Xor4, ROTR(x, 2), ROTR(x, 13), ROTR(x, 22))
BigSigma1(x) == Tri(Xor4, ROTR(x, 6), ROTR(x, 11), ROTR(x, 25))
SmallSigma0(x) == Tri(Xor4, ROTR(x, 7), ROTR(x, 18), SHR(x, 3))
SmallSigma1(x) == Tri(Xor4, ROTR(x, 17), ROTR(x, 19), SHR(x, 10))

BlockWord(block, j) ==
    <<block[4 * j - 3] * 256 + block[4 * j - 2], block[4 * j - 1] * 256 + block[4 * j]>>

RECURSIVE Schedule(_)
Schedule(w) ==
    IF Len(w) = 64 THEN w
    ELSE LET t == Len(w) + 1
         IN  Schedule(Append(w,
                 ADD(ADD(SmallSigma1(w[t - 2]), w[t - 7]),
                     ADD(SmallSigma0(w[t - 15]), w[t - 16]))))

Round(s, w, t) ==
    LET t1 == ADD(ADD(ADD(s[8], BigSigma1(s[5])), ADD(Ch(s[5], s[6], s[7]), K256[t])), w[t])
        t2 == ADD(BigSigma0(s[1]), Maj(s[1], s[2], s[3]))
    IN  <<ADD(t1, t2), s[1], s[2], s[3], ADD(s[4], t1), s[5], s[6], s[7]>>

RECURSIVE Rounds(_, _)
Rounds(st, w) ==
    IF st.t > 64 THEN st.s
    ELSE Rounds([t |-> st.t + 1, s |-> Round(st.s, w, st.t)], w)

compress256(state, block) ==
    LET w == Schedule([j \in 1..16 |-> BlockWord(block, j)])
        s == Rounds([t |-> 1, s |-> state], w)
    IN  <<>> \o [i \in 1..8 |-> ADD(state[i], s[i])]

Zeros(n) == [i \in 1..n |-> 0]

(* The message length in bits as 8 big-endian bytes (lengths below 2^28 bytes). *)
LenBytes(n) ==
    <<0, 0, 0, 0, (n \div 2097152) % 256, (n \div 8192) % 256, (n \div 32) % 256, (n * 8) % 256>>

(* A faulty variant of Pad: the padding without the message length. *)
PadNoLength(n) == <<128>> \o Zeros((119 - (n % 64)) % 64) \o Zeros(8)

(* Padding of a message of n bytes: 0x80, zeros up to 56 mod 64, the length. *)
Pad(n) == <<128>> \o Zeros((119 - (n % 64)) % 64) \o LenBytes(n)

RECURSIVE Blocks(_, _)
Blocks(state, msg) ==
    IF Len(msg) < 64 THEN state
    ELSE Blocks(compress256(state, SubSeq(msg, 1, 64)), SubSeq(msg, 65, Len(msg)))

WordBytes(w) == <<w[1] \div 256, w[1] % 256, w[2] \div 256, w[2] % 256>>

StateBytes(s) ==
    WordBytes(s[1]) \o WordBytes(s[2]) \o WordBytes(s[3]) \o WordBytes(s[4])
    \o WordBytes(s[5]) \o WordBytes(s[6]) \o WordBytes(s[7]) \o WordBytes(s[8])

(* FIPS 180-4: the digest of a whole message, padded and folded block by block. *)
Sha256Ref(msg) == StateBytes(Blocks(H256_256, msg \o Pad(Len(msg))))

(* Sha256::new(): the initial state, no block processed, an empty block buffer. *)
Sha256_new == [state |-> H256_256, block_len |-> 0, buffer |-> <<>>]

(* A faulty variant of update: a chunk replaces the buffered bytes instead of
   following them. *)
update_overwrite(hs, data) ==
    LET nblocks == Len(data) \div 64
    IN  [state |-> Blocks(hs.state, SubSeq(data, 1, 64 * nblocks)),
         block_len |-> hs.block_len + nblocks,
         buffer |-> SubSeq(data, 64 * nblocks + 1, Len(data))]

(* A faulty variant of update: a chunk goes in front of the buffered bytes. *)
update_prepend(hs, data) ==
    LET all == data \o hs.buffer
        nblocks == Len(all) \div 64
    IN  [state |-> Blocks(hs.state, SubSeq(all, 1, 64 * nblocks)),
         block_len |-> hs.block_len + nblocks,
         buffer |-> SubSeq(all, 64 * nblocks + 1, Len(all))]

(* Update::update / Write::write for Sha256: the chunk follows the buffered
   bytes, every whole 64-byte block is compressed, the rest stays buffered. *)
update(hs, data) ==
    LET all == hs.buffer \o data
        nblocks == Len(all) \div 64
    IN  [state |-> Blocks(hs.state, SubSeq(all, 1, 64 * nblocks)),
         block_len |-> hs.block_len + nblocks,
         buffer |-> SubSeq(all, 64 * nblocks + 1, Len(all))]

(* Digest::finalize: pad the buffered bytes with the total length, compress,
   and serialize the eight state words big-endian. *)
finalize(hs) ==
    StateBytes(Blocks(hs.state, hs.buffer \o Pad(hs.block_len * 64 + Len(hs.buffer))))

(***************************************************************************)
(* Text encodings of a byte string.  A string is a sequence of characters.  *)
(***************************************************************************)
HexLower == <<"0", "1", "2", "3", "4", "5", "6", "7", "8", "9", "a", "b", "c", "d", "e", "f">>

HexUpper == <<"0", "1", "2", "3", "4", "5", "6", "7", "8", "9", "A", "B", "C", "D", "E", "F">>

Base64Alphabet == <<
    "A", "B", "C", "D", "E", "F", "G", "H", "I", "J", "K", "L", "M", "N", "O", "P",
    "Q", "R", "S", "T", "U", "V", "W", "X", "Y", "Z", "a", "b", "c", "d", "e", "f",
    "g", "h", "i", "j", "k", "l", "m", "n", "o", "p", "q", "r", "s", "t", "u", "v",
    "w", "x", "y", "z", "0", "1", "2", "3", "4", "5", "6", "7", "8", "9", "+", "/">>

(* Two characters per byte, most significant nibble first. *)
Base16(alphabet, bytes) ==
    <<>> \o [i \in 1..(2 * Len(bytes)) |->
                alphabet[(IF i % 2 = 1 THEN bytes[(i + 1) \div 2] \div 16
                                       ELSE bytes[(i + 1) \div 2] % 16) + 1]]

(* Standard Base64 with padding, four characters per group of three bytes:
   the encoding the doc comment of hash_sha256 names. *)
Base64(bytes) ==
    <<>> \o [k \in 1..(4 * ((Len(bytes) + 2) \div 3)) |->
                LET g == (k - 1) \div 4
                    j == (k - 1) % 4
                    byte(i) == IF i <= Len(bytes) THEN bytes[i] ELSE 0
                    v == byte(3 * g + 1) * 65536 + byte(3 * g + 2) * 256 + byte(3 * g + 3)
                IN  IF 3 * g + j > Len(bytes) THEN "="
                    ELSE Base64Alphabet[((v \div (64 ^ (3 - j))) % 64) + 1]]

(* A faulty variant of encode_string: the upper-case alphabet. *)
encode_string_upper(bytes) == Base16(HexUpper, bytes)

(* base16ct::lower::encode_string *)
encode_string(bytes) == Base16(HexLower, bytes)

(***************************************************************************)
(* The file system the calls run against.                                   *)
(***************************************************************************)
HelloBytes == <<104, 101, 108, 108, 111>>

LongBytes == <<>> \o [i \in 1..LongLen |-> (i * 37) % 256]

FileSystem ==
    ("examples/invalid.txt" :> [kind |-> "missing", content |-> <<>>])
    @@ ("examples/secret.txt" :> [kind |-> "denied", content |-> <<>>])
    @@ ("examples" :> [kind |-> "dir", content |-> <<>>])
    @@ ("examples/empty.txt" :> [kind |-> "file", content |-> <<>>])
    @@ ("examples/hello.txt" :> [kind |-> "file", content |-> HelloBytes])
    @@ ("examples/copy.txt" :> [kind |-> "file", content |-> HelloBytes])
    @@ ("examples/long.bin" :> [kind |-> "file", content |-> LongBytes])

Paths == DOMAIN FileSystem

(* The paths two calls running in parallel are given. *)
ParPaths == {"examples/invalid.txt", "examples/empty.txt", "examples/hello.txt"}

Content(p) == FileSystem[p].content

(* A faulty variant of OpenOutcomes: a missing file is created and opened. *)
OpenOutcomesCreate(kind) ==
    CASE kind = "missing" -> {"Ok"}
      [] kind = "denied" -> {"PermissionDenied"}
      [] kind = "dir" -> {"Ok", "PermissionDenied"}
      [] OTHER -> {"Ok", "Other"}

(* File::open: the outcomes the platform can produce for each kind of path
   (a directory opens on Unix and is refused on Windows). *)
OpenOutcomes(kind) ==
    CASE kind = "missing" -> {"NotFound"}
      [] kind = "denied" -> {"PermissionDenied"}
      [] kind = "dir" -> {"Ok", "PermissionDenied"}
      [] OTHER -> {"Ok", "Other"}

(* Read::read on an open file: the errors it can raise. *)
ReadErrors(kind) ==
    IF kind = "dir" THEN {"IsADirectory"} ELSE {"Interrupted", "Other"}

(* A faulty variant of is_interrupted: every error is retried. *)
is_interrupted_any(e) == TRUE

(* io::copy retries a read that failed with ErrorKind::Interrupted and returns
   every other error. *)
is_interrupted(e) == e = "Interrupted"

Pending == [tag |-> "Pending"]
Ok(text) == [tag |-> "Ok", text |-> text]

(* A faulty variant of Err: the failure swallowed and the digest of nothing returned. *)
ErrSwallowed(e) == Ok(encode_string(Zeros(32)))

Err(e) == [tag |-> "Err", error |-> e]

(* A faulty variant of drop: the handle is leaked. *)
drop_leak(f) == f

(* Dropping the reader closes the file it owns. *)
drop(f) == IF f = "open" THEN "closed" ELSE f

(* A faulty variant of Own: one accumulator shared by every call. *)
Shared(c) == 1

(* let mut hasher: the accumulator is a local of the call. *)
Own(c) == c

VARIABLES
    sink,       \* whether a logger is installed
    log,        \* per call, the messages debug! delivered
    path,       \* per call, the argument
    pc,         \* per call, the control point
    file,       \* per call, the handle: "none", "open", "closed"
    pos,        \* per call, the offset of the handle in its file
    reader,     \* per call, the bytes the last read left in the reader's buffer
    hasher,     \* per accumulator, the Sha256 state
    fed,        \* per call, the bytes written to its accumulator so far
    digest,     \* per call, the local `hash`
    finalized,  \* per call, whether finalize ran
    ioErrors,   \* per call, the errors open and read raised, in order
    readTried,  \* per call, whether a read of its file was attempted
    midStream,  \* per call, whether it failed with bytes already written to the hasher
    result      \* per call, the value returned

vars == <<sink, log, path, pc, file, pos, reader, hasher, fed, digest, finalized, ioErrors, readTried,
          midStream, result>>

Init ==
    /\ sink = FALSE
    /\ log = [c \in Calls |-> <<>>]
    /\ path = [c \in Calls |-> ""]
    /\ pc = [c \in Calls |-> "idle"]
    /\ file = [c \in Calls |-> "none"]
    /\ pos = [c \in Calls |-> 0]
    /\ reader = [c \in Calls |-> <<>>]
    /\ hasher = [c \in Calls |-> Sha256_new]
    /\ fed = [c \in Calls |-> <<>>]
    /\ digest = [c \in Calls |-> <<>>]
    /\ finalized = [c \in Calls |-> FALSE]
    /\ ioErrors = [c \in Calls |-> <<>>]
    /\ readTried = [c \in Calls |-> FALSE]
    /\ midStream = [c \in Calls |-> FALSE]
    /\ result = [c \in Calls |-> Pending]

(* debug!: the message reaches the sink when one is installed. *)
debug(c, msg) == log' = IF sink THEN [log EXCEPT ![c] = Append(@, msg)] ELSE log

(* The application installs a logger (log::set_logger succeeds once). *)
InstallLogger ==
    /\ ~sink
    /\ \A c \in Calls : pc[c] \in {"idle", "done"}
    /\ sink' = TRUE
    /\ UNCHANGED <<log, path, pc, file, pos, reader, hasher, fed, digest, finalized, ioErrors,
                   readTried, midStream, result>>

(* The caller invokes hash_sha256(p). *)
Call(c, p) ==
    /\ pc[c] = "idle"
    /\ path' = [path EXCEPT ![c] = p]
    /\ pc' = [pc EXCEPT ![c] = "open"]
    /\ UNCHANGED <<sink, log, file, pos, reader, hasher, fed, digest, finalized, ioErrors,
                   readTried, midStream, result>>

(* A `?` that sees Err(e): Err(e) is returned and the locals are dropped (the
   reader with its file and offset, the hasher). *)
Fail(c, e) ==
    /\ ioErrors' = [ioErrors EXCEPT ![c] = Append(@, e)]
    /\ midStream' = [midStream EXCEPT ![c] = fed[c] # <<>>]
    /\ result' = [result EXCEPT ![c] = Err(e)]
    /\ file' = [file EXCEPT ![c] = drop(@)]
    /\ pos' = [pos EXCEPT ![c] = 0]
    /\ reader' = [reader EXCEPT ![c] = <<>>]
    /\ hasher' = [hasher EXCEPT ![Own(c)] = Sha256_new]
    /\ fed' = [fed EXCEPT ![c] = <<>>]
    /\ pc' = [pc EXCEPT ![c] = "done"]

(* let file = File::open(path)?; BufReader::new(file); Sha256::new() *)
Open(c) ==
    /\ pc[c] = "open"
    /\ \E outcome \in OpenOutcomes(FileSystem[path[c]].kind) :
          \/ /\ outcome = "Ok"
             /\ file' = [file EXCEPT ![c] = "open"]
             /\ hasher' = [hasher EXCEPT ![Own(c)] = Sha256_new]
             /\ pc' = [pc EXCEPT ![c] = "read"]
             /\ UNCHANGED <<pos, reader, fed, ioErrors, midStream, result>>
          \/ /\ outcome # "Ok"
             /\ Fail(c, outcome)
    /\ UNCHANGED <<sink, log, path, digest, finalized, readTried>>

(* io::copy, the head of its loop: one read of the file into the reader's
   buffer.  A short read returns fewer bytes than the buffer holds. *)
Read(c) ==
    /\ pc[c] = "read"
    /\ file[c] = "open"
    /\ LET f == FileSystem[path[c]]
       IN  \/ /\ f.kind = "file"
              /\ pos[c] < Len(f.content)
              /\ \E n \in 1..MaxReadLen :
                    /\ pos[c] + n <= Len(f.content)
                    /\ reader' = [reader EXCEPT ![c] = SubSeq(f.content, pos[c] + 1, pos[c] + n)]
                    /\ pos' = [pos EXCEPT ![c] = @ + n]
              /\ pc' = [pc EXCEPT ![c] = "write"]
              /\ UNCHANGED <<log, file, hasher, fed, ioErrors, midStream, result>>
           \/ /\ f.kind = "file"
              /\ pos[c] = Len(f.content)
              /\ pc' = [pc EXCEPT ![c] = "finalize"]
              /\ debug(c, [text |-> "Read bytes", n |-> Len(fed[c]), path |-> path[c]])
              /\ UNCHANGED <<file, pos, reader, hasher, fed, ioErrors, midStream, result>>
           \/ \E e \in ReadErrors(f.kind) :
                 \/ /\ is_interrupted(e)
                    /\ Len(ioErrors[c]) < MaxInterrupts
                    /\ ioErrors' = [ioErrors EXCEPT ![c] = Append(@, e)]
                    /\ UNCHANGED <<log, file, pos, reader, hasher, fed, pc, midStream, result>>
                 \/ /\ ~is_interrupted(e)
                    /\ Fail(c, e)
                    /\ UNCHANGED log
    /\ readTried' = [readTried EXCEPT ![c] = TRUE]
    /\ UNCHANGED <<sink, path, digest, finalized>>

(* io::copy, the body of its loop: write_all of the buffered bytes to the
   hasher, then the buffer is consumed. *)
Write(c) ==
    /\ pc[c] = "write"
    /\ hasher' = [hasher EXCEPT ![Own(c)] = update(@, reader[c])]
    /\ fed' = [fed EXCEPT ![c] = @ \o reader[c]]
    /\ reader' = [reader EXCEPT ![c] = <<>>]
    /\ pc' = [pc EXCEPT ![c] = "read"]
    /\ UNCHANGED <<sink, log, path, file, pos, digest, finalized, ioErrors, readTried, midStream, result>>

(* let hash = hasher.finalize(); the hasher is consumed. *)
Finalize(c) ==
    /\ pc[c] = "finalize"
    /\ digest' = [digest EXCEPT ![c] = finalize(hasher[Own(c)])]
    /\ finalized' = [finalized EXCEPT ![c] = TRUE]
    /\ hasher' = [hasher EXCEPT ![Own(c)] = Sha256_new]
    /\ fed' = [fed EXCEPT ![c] = <<>>]
    /\ pc' = [pc EXCEPT ![c] = "encode"]
    /\ UNCHANGED <<sink, log, path, file, pos, reader, ioErrors, readTried, midStream, result>>

(* let base64 = encode_string(&hash); Ok(base64): the locals are dropped. *)
Encode(c) ==
    /\ pc[c] = "encode"
    /\ result' = [result EXCEPT ![c] = Ok(encode_string(digest[c]))]
    /\ debug(c, [text |-> "Computed SHA-256 hash", n |-> 32, path |-> path[c]])
    /\ digest' = [digest EXCEPT ![c] = <<>>]
    /\ file' = [file EXCEPT ![c] = drop(@)]
    /\ pos' = [pos EXCEPT ![c] = 0]
    /\ pc' = [pc EXCEPT ![c] = "done"]
    /\ UNCHANGED <<sink, path, reader, hasher, fed, finalized, ioErrors, readTried, midStream>>

Step(c) == Open(c) \/ Read(c) \/ Write(c) \/ Finalize(c) \/ Encode(c)

(* One thread calling hash_sha256 again and again: a call starts when the
   one before it has returned. *)
CallNext(c) ==
    /\ \A d \in Calls : d < c => pc[d] = "done"
    /\ \A d \in Calls : d > c => pc[d] = "idle"
    /\ \E p \in Paths : Call(c, p)

(* One thread per call: a call starts at any time. *)
CallPar(c) ==
    /\ \A d \in Calls : d < c => pc[d] # "idle"
    /\ \E p \in ParPaths : Call(c, p)

Next == InstallLogger \/ \E c \in Calls : CallNext(c) \/ Step(c)

NextPar == \E c \in Calls : CallPar(c) \/ Step(c)

Spec == Init /\ [][Next]_vars

SpecPar == Init /\ [][NextPar]_vars

(***************************************************************************)
(* Reference values, computed once from the file contents.                  *)
(***************************************************************************)
LowerHexDigits == {"0", "1", "2", "3", "4", "5", "6", "7", "8", "9", "a", "b", "c", "d", "e", "f"}

(* e3b0c44298fc1c149afbf4c8996fb92427ae41e4649b934ca495991b7852b855 *)
EmptyDigestHex == <<
    "e", "3", "b", "0", "c", "4", "4", "2", "9", "8", "f", "c", "1", "c", "1", "4",
    "9", "a", "f", "b", "f", "4", "c", "8", "9", "9", "6", "f", "b", "9", "2", "4",
    "2", "7", "a", "e", "4", "1", "e", "4", "6", "4", "9", "b", "9", "3", "4", "c",
    "a", "4", "9", "5", "9", "9", "1", "b", "7", "8", "5", "2", "b", "8", "5", "5">>

(* 2cf24dba5fb0a30e26e83b2ac5b9e29e1b161e5c1fa7425e73043362938b9824 *)
HelloDigestHex == <<
    "2", "c", "f", "2", "4", "d", "b", "a", "5", "f", "b", "0", "a", "3", "0", "e",
    "2", "6", "e", "8", "3", "b", "2", "a", "c", "5", "b", "9", "e", "2", "9", "e",
    "1", "b", "1", "6", "1", "e", "5", "c", "1", "f", "a", "7", "4", "2", "5", "e",
    "7", "3", "0", "4", "3", "3", "6", "2", "9", "3", "8", "b", "9", "8", "2", "4">>

(* The FIPS 180-4 digest of each file's complete content. *)
RefDigest == [p \in Paths |-> Sha256Ref(Content(p))] @@ <<>>

(* Its lower-case hexadecimal encoding. *)
RefHex == [p \in Paths |-> Base16(HexLower, RefDigest[p])] @@ <<>>

(* The string obtained by hashing each file's content in a single update. *)
SingleUpdateHex ==
    [p \in Paths |-> Base16(HexLower, finalize(update(Sha256_new, Content(p))))] @@ <<>>

Kind(c) == FileSystem[path[c]].kind
Returned(c) == pc[c] = "done"
ReturnedOk(c) == pc[c] = "done" /\ result[c].tag = "Ok"
ReturnedErr(c) == pc[c] = "done" /\ result[c].tag = "Err"

(* The last error the call saw was not a retried one. *)
FatalError(c) == ioErrors[c] # <<>> /\ ioErrors[c][Len(ioErrors[c])] # "Interrupted"

(* C1: a call whose open fails (missing file, permission denied, any other
   open failure) returns Err with the error of the open, never Ok; no read
   was attempted, nothing was finalized and nothing was logged. *)
C1_OpenFailureIsErr ==
    \A c \in Calls :
        /\ (Returned(c) /\ Kind(c) \in {"missing", "denied"}) => file[c] = "none"
        /\ (Returned(c) /\ file[c] = "none") =>
              /\ result[c].tag = "Err"
              /\ ioErrors[c] = <<result[c].error>>
              /\ result[c].error \in {"NotFound", "PermissionDenied", "Other"}
              /\ ~readTried[c]
              /\ ~finalized[c]
              /\ log[c] = <<>>

C1_Witness ==
    \E c \in Calls :
        /\ Returned(c)
        /\ path[c] = "examples/invalid.txt"
        /\ result[c] = [tag |-> "Err", error |-> "NotFound"]

(* C2: a call on a readable file that no read error ends returns Ok with the
   lower-case hexadecimal encoding of the SHA-256 digest of the file's
   complete content; when its reads are exhausted the hasher has been fed
   exactly the content, in order; the empty file gives e3b0c442...b855 and
   "hello" gives 2cf24dba...9824. *)
C2_OkIsHexOfSha256 ==
    \A c \in Calls :
        /\ pc[c] = "finalize" => fed[c] = Content(path[c])
        /\ (Returned(c) /\ Kind(c) = "file" /\ file[c] # "none" /\ ~FatalError(c)) =>
              result[c].tag = "Ok"
        /\ ReturnedOk(c) =>
              /\ result[c].text = RefHex[path[c]]
              /\ Content(path[c]) = <<>> => result[c].text = EmptyDigestHex
              /\ Content(path[c]) = HelloBytes => result[c].text = HelloDigestHex

C2_Witness ==
    \E c \in Calls :
        /\ ReturnedOk(c)
        /\ path[c] = "examples/empty.txt"
        /\ result[c].text = EmptyDigestHex

(* C3, as stated: whenever a read of the opened file failed, the call
   returns Err. *)
C3_AnyReadErrorIsErr ==
    \A c \in Calls :
        (Returned(c) /\ file[c] # "none" /\ ioErrors[c] # <<>>) => result[c].tag = "Err"

(* C3, amended: whenever a read of the opened file failed with an error
   other than Interrupted, the call returns Err, the hasher was never
   finalized and no string is returned; every call ends with Ok and the
   digest of the complete content, or with Err. *)
C3_FatalReadErrorIsErr ==
    \A c \in Calls :
        Returned(c) =>
            /\ result[c].tag \in {"Ok", "Err"}
            /\ FatalError(c) => result[c].tag = "Err"
            /\ result[c].tag = "Err" => ~finalized[c] /\ digest[c] = <<>>
            /\ result[c].tag = "Ok" => finalized[c] /\ result[c].text = RefHex[path[c]]

C3_Witness ==
    \E c \in Calls :
        /\ ReturnedErr(c)
        /\ path[c] = "examples/hello.txt"
        /\ file[c] = "closed"
        /\ midStream[c]
        /\ result[c].error = "Other"
        /\ ~finalized[c]

(* C4: whatever chunks the reads split the content into, the string returned
   equals the one obtained by hashing the content in a single update. *)
C4_StreamingEquivalence ==
    \A c \in Calls : ReturnedOk(c) => result[c].text = SingleUpdateHex[path[c]]

C4_Witness ==
    \E c \in Calls :
        /\ ReturnedOk(c)
        /\ path[c] = "examples/long.bin"
        /\ Len(Content(path[c])) > 64
        /\ Len(Content(path[c])) > MaxReadLen
        /\ result[c].text = SingleUpdateHex[path[c]]

(* C5: a returned string has exactly 64 characters, each one of 0-9a-f. *)
C5_LengthAndCharset ==
    \A c \in Calls :
        ReturnedOk(c) =>
            /\ Len(result[c].text) = 64
            /\ \A i \in 1..Len(result[c].text) : result[c].text[i] \in LowerHexDigits

C5_Witness ==
    \E c \in Calls :
        /\ ReturnedOk(c)
        /\ path[c] = "examples/hello.txt"
        /\ Len(result[c].text) = 64
        /\ \E i \in 1..64 : result[c].text[i] \in {"a", "b", "c", "d", "e", "f"}

(* C6: two calls that returned Ok for files with the same bytes returned the
   same string, whatever their paths, their order and the presence of a log
   sink. *)
C6_Determinism ==
    \A c, d \in Calls :
        (ReturnedOk(c) /\ ReturnedOk(d) /\ Content(path[c]) = Content(path[d])) =>
            result[c].text = result[d].text

C6_Witness ==
    /\ ReturnedOk(1)
    /\ ReturnedOk(2)
    /\ path[1] = "examples/hello.txt"
    /\ path[2] = "examples/copy.txt"
    /\ log[1] = <<>>
    /\ log[2] # <<>>
    /\ result[1].text = result[2].text

(* C7: the string a call returns is the Base64 encoding of the SHA-256 digest
   of the file's content. *)
C7_OkIsBase64 ==
    \A c \in Calls : ReturnedOk(c) => result[c].text = Base64(RefDigest[path[c]])

(* What the call returns when it runs alone and its reads end the same way. *)
Alone(c) ==
    IF FatalError(c)
    THEN [tag |-> "Err", error |-> ioErrors[c][Len(ioErrors[c])]]
    ELSE [tag |-> "Ok", text |-> RefHex[path[c]]]

(* C8: under every interleaving of the steps of calls running in parallel,
   each call computes the digest of its own file and returns what it returns
   when it runs alone. *)
C8_NoInterference ==
    \A c \in Calls :
        /\ pc[c] = "encode" => digest[c] = RefDigest[path[c]]
        /\ Returned(c) => result[c] = Alone(c)

C8_Witness ==
    /\ pc[1] = "encode"
    /\ pc[2] = "encode"
    /\ path[1] = "examples/hello.txt"
    /\ path[2] = "examples/empty.txt"
    /\ digest[1] = RefDigest[path[1]]
    /\ digest[2] = RefDigest[path[2]]

(* C9, as stated: the first error the open or a read raises ends the call
   and is the error returned. *)
C9_FirstErrorEndsCall ==
    \A c \in Calls :
        ioErrors[c] # <<>> =>
            /\ pc[c] = "done"
            /\ result[c].tag = "Err"
            /\ result[c].error = ioErrors[c][1]

(* C9, amended: the first error other than Interrupted that the open or a
   read raises ends the call and is the error returned: it is the last error
   of the call, and every error before it was an Interrupted read, which
   io::copy retried. *)
C9_FirstFatalErrorEndsCall ==
    \A c \in Calls :
        \A i \in 1..Len(ioErrors[c]) :
            ioErrors[c][i] # "Interrupted" =>
                /\ i = Len(ioErrors[c])
                /\ pc[c] = "done"
                /\ result[c].tag = "Err"
                /\ result[c].error = ioErrors[c][i]

C9_Witness ==
    \E c \in Calls :
        /\ ioErrors[c] = <<"Interrupted", "Other">>
        /\ ReturnedErr(c)
        /\ result[c].error = "Other"

(* C10: a call that returned holds no open handle, whether it returned Ok or
   an error; a handle is open for as long as its call is between the open
   and the return, so it is not closed before the last read. *)
C10_HandleReleased ==
    \A c \in Calls :
        /\ Returned(c) => file[c] \in {"none", "closed"}
        /\ file[c] = "closed" => Returned(c)
        /\ pc[c] \in {"read", "write", "finalize", "encode"} => file[c] = "open"

C10_Witness ==
    /\ ReturnedOk(1)
    /\ file[1] = "closed"
    /\ ReturnedErr(2)
    /\ file[2] = "closed"
    /\ readTried[2]

====
